---- MODULE Spec2Model ----
(***************************************************************************)
(* Model of the two diagnostic scripts of brain-dump-py:                   *)
(*   backend/debug_note_flow.mjs      (GET /verify-user, POST /brain-dump, *)
(*                                     note contract assertions)           *)
(*   backend/debug_reminder_flow.mjs  (two POST /brain-dump tests, the     *)
(*                                     reminder report)                    *)
(* The remote service is the environment: it answers every request with   *)
(* any HTTP status and any body text of the bounded sets below, or the     *)
(* request fails at the transport level.                                   *)
(*                                                                         *)
(* Strings are sequences of one-character strings, so that trim(), the     *)
(* emptiness test and lexical shapes are computed on the characters.       *)
(* A body text is a sequence of JSON tokens; JSON.parse is a recursive-    *)
(* descent parser over the tokens.                                         *)
(***************************************************************************)
EXTENDS Integers, Sequences, FiniteSets, TLC

(* ------------------------------------------------------------------ *)
(* Bounds of the environment's answers                                  *)
(* ------------------------------------------------------------------ *)
\* longest run of blanks the service puts around / instead of a message
MaxPad == 1

(* ------------------------------------------------------------------ *)
(* String literals of the scripts, as character sequences               *)
(* ------------------------------------------------------------------ *)
K_status ==
    <<"s","t","a","t","u","s">>
K_intent ==
    <<"i","n","t","e","n","t">>
K_message ==
    <<"m","e","s","s","a","g","e">>
K_registration_url ==
    <<"r","e","g","i","s","t","r","a","t","i","o","n","_","u","r","l">>
K_registered ==
    <<"r","e","g","i","s","t","e","r","e","d">>
K_reminder_title ==
    <<"r","e","m","i","n","d","e","r","_","t","i","t","l","e">>
K_reminder_time ==
    <<"r","e","m","i","n","d","e","r","_","t","i","m","e">>
K_reminder_date ==
    <<"r","e","m","i","n","d","e","r","_","d","a","t","e">>
K_clarification_for ==
    <<"c","l","a","r","i","f","i","c","a","t","i","o","n","_","f","o","r">>
K_toString ==
    <<"t","o","S","t","r","i","n","g">>
K_user_id ==
    <<"u","s","e","r","_","i","d">>
K_text ==
    <<"t","e","x","t">>
S_SUCCESS ==
    <<"S","U","C","C","E","S","S">>
S_NEEDS_CLARIFICATION ==
    <<"N","E","E","D","S","_","C","L","A","R","I","F","I","C","A","T","I","O","N">>
S_note ==
    <<"n","o","t","e">>
S_reminder ==
    <<"r","e","m","i","n","d","e","r">>

\* hard-coded configuration of the scripts (texts abbreviated)
TECHNICAL_ID ==
    <<"D","a","n","i","e","l","_","i","P","h","o","n","e">>
NOTE_TEXT == <<"n","o","t","e","-","t","e","x","t">>
TEST_WITH_TIME == <<"w","i","t","h">>
TEST_WITHOUT_TIME == <<"w","i","t","h","o","u","t">>
BASE_URL == "https://brain-dump-py.onrender.com"
verifyUrl == "https://brain-dump-py.onrender.com/verify-user?user_id=Daniel_iPhone"
postUrl == "https://brain-dump-py.onrender.com/brain-dump"

(* ------------------------------------------------------------------ *)
(* JavaScript values                                                    *)
(* ------------------------------------------------------------------ *)
Undefined == [t |-> "undefined"]
Null == [t |-> "null"]
Bool(b) == [t |-> "bool", b |-> b]
Num(n) == [t |-> "num", n |-> n]
Str(s) == [t |-> "str", s |-> s]
Arr(e) == [t |-> "arr", e |-> e]
Obj(f) == [t |-> "obj", f |-> f]

\* v.key for a value that is neither null nor undefined; none of the keys
\* the scripts read is inherited from a prototype
Get(v, key) ==
    IF v.t = "obj" /\ key \in DOMAIN v.f THEN v.f[key] ELSE Undefined

\* v?.key
OptGet(v, key) ==
    IF v.t \in {"null", "undefined"} THEN Undefined ELSE Get(v, key)

\* ToBoolean
Truthy(v) ==
    CASE v.t \in {"undefined", "null"} -> FALSE
      [] v.t = "bool" -> v.b
      [] v.t = "num" -> v.n # 0
      [] v.t = "str" -> v.s # << >>
      [] OTHER -> TRUE

\* typeof v === "object" && v !== null
IsObjectNotNull(v) == v.t \in {"obj", "arr"}

\* key in v, for v an object or an array and key a non-index name
HasKey(key, v) == v.t = "obj" /\ key \in DOMAIN v.f

WhiteSpace == {" ", "\t", "\n", "\r"}

RECURSIVE TrimStart(_)
TrimStart(s) ==
    IF s # << >> /\ Head(s) \in WhiteSpace THEN TrimStart(Tail(s)) ELSE s

RECURSIVE TrimEnd(_)
TrimEnd(s) ==
    IF s # << >> /\ s[Len(s)] \in WhiteSpace
    THEN TrimEnd(SubSeq(s, 1, Len(s) - 1)) ELSE s

\* String.prototype.trim
Trim(s) == TrimEnd(TrimStart(s))

\* "text" + v throws a TypeError: ToPrimitive finds neither a callable
\* valueOf returning a primitive nor a callable toString.  A parsed JSON
\* object inherits both from Object.prototype (valueOf returns the object
\* itself) unless an own "toString" member, never callable, shadows it;
\* an array joins the string conversions of its elements.
RECURSIVE ConcatThrows(_)
ConcatThrows(v) ==
    CASE v.t = "obj" -> K_toString \in DOMAIN v.f
      [] v.t = "arr" -> \E i \in DOMAIN v.e : ConcatThrows(v.e[i])
      [] OTHER -> FALSE

(* ------------------------------------------------------------------ *)
(* JSON texts: token sequences                                          *)
(* ------------------------------------------------------------------ *)
P(k) == [k |-> k]
StrTok(s) == [k |-> "str", s |-> s]
NumTok(n) == [k |-> "num", n |-> n]

RECURSIVE JoinComma(_)
JoinComma(ms) ==
    IF ms = << >> THEN << >>
    ELSE IF Len(ms) = 1 THEN ms[1]
    ELSE ms[1] \o <<P(",")>> \o JoinComma(Tail(ms))

Member(key, vtoks) == <<StrTok(key), P(":")>> \o vtoks
ObjectText(members) == <<P("{")>> \o JoinComma(members) \o <<P("}")>>

\* JSON.stringify({ user_id: TECHNICAL_ID, text: text })
StringifyBody(text) ==
    ObjectText(<< Member(K_user_id, <<StrTok(TECHNICAL_ID)>>),
                  Member(K_text, <<StrTok(text)>>) >>)

ParseFail == [ok |-> FALSE]
ParseOk(v, rest) == [ok |-> TRUE, v |-> v, rest |-> rest]

RECURSIVE ParseValue(_)
RECURSIVE ParseMembers(_, _, _)
RECURSIVE ParseElements(_, _, _)

\* members of an object after "{" ; first = no member read yet.  A repeated
\* key keeps its last value.
ParseMembers(ts, acc, first) ==
    IF ts = << >> THEN ParseFail
    ELSE IF first /\ Head(ts).k = "}" THEN ParseOk(Obj(acc), Tail(ts))
    ELSE IF Len(ts) < 3 \/ ts[1].k # "str" \/ ts[2].k # ":" THEN ParseFail
    ELSE LET r == ParseValue(SubSeq(ts, 3, Len(ts))) IN
         IF ~r.ok \/ r.rest = << >> THEN ParseFail
         ELSE LET acc2 == (ts[1].s :> r.v) @@ acc IN
              CASE Head(r.rest).k = "}" -> ParseOk(Obj(acc2), Tail(r.rest))
                [] Head(r.rest).k = "," -> ParseMembers(Tail(r.rest), acc2, FALSE)
                [] OTHER -> ParseFail

ParseElements(ts, acc, first) ==
    IF ts = << >> THEN ParseFail
    ELSE IF first /\ Head(ts).k = "]" THEN ParseOk(Arr(acc), Tail(ts))
    ELSE LET r == ParseValue(ts) IN
         IF ~r.ok \/ r.rest = << >> THEN ParseFail
         ELSE LET acc2 == Append(acc, r.v) IN
              CASE Head(r.rest).k = "]" -> ParseOk(Arr(acc2), Tail(r.rest))
                [] Head(r.rest).k = "," -> ParseElements(Tail(r.rest), acc2, FALSE)
                [] OTHER -> ParseFail

ParseValue(ts) ==
    IF ts = << >> THEN ParseFail
    ELSE LET h == Head(ts)
             r == Tail(ts) IN
         CASE h.k = "null" -> ParseOk(Null, r)
           [] h.k = "true" -> ParseOk(Bool(TRUE), r)
           [] h.k = "false" -> ParseOk(Bool(FALSE), r)
           [] h.k = "num" -> ParseOk(Num(h.n), r)
           [] h.k = "str" -> ParseOk(Str(h.s), r)
           [] h.k = "{" -> ParseMembers(r, << >>, TRUE)
           [] h.k = "[" -> ParseElements(r, << >>, TRUE)
           [] OTHER -> ParseFail

\* JSON.parse(text): one value and nothing after it, or a SyntaxError
JSONparse(text) ==
    LET r == ParseValue(text) IN
    IF r.ok /\ r.rest = << >> THEN r ELSE ParseFail

(* ------------------------------------------------------------------ *)
(* The remote service: the answers it can give                          *)
(* ------------------------------------------------------------------ *)
HTTPStatuses == {200, 500}

\* res.ok
ResOk(status) == status >= 200 /\ status <= 299

Pad(n) == [i \in 1..n |-> " "]
Hi == <<"h","i">>
S_other == <<"o","t","h","e","r">>
S_time == <<"t","i","m","e">>
S_url == <<"u","r","l">>
T_1700 == <<"1","7",":","0","0">>
T_2599 == <<"2","5",":","9","9">>
T_5pm == <<"5","p","m">>
D_iso == <<"2","0","2","6","-","0","2","-","0","6">>
D_tomorrow == <<"t","o","m","o","r","r","o","w">>

One(key, vtoks) == << Member(key, vtoks) >>

StatusOpts ==
    { << >>, One(K_status, <<StrTok(S_SUCCESS)>>),
      One(K_status, <<StrTok(S_NEEDS_CLARIFICATION)>>) }

IntentOpts ==
    { << >>, One(K_intent, <<StrTok(S_note)>>),
      One(K_intent, <<StrTok(S_reminder)>>),
      One(K_intent, <<StrTok(S_other)>>) }

MessageStrings ==
    { Pad(i) : i \in 0..MaxPad } \cup
    { Pad(i) \o Hi \o Pad(MaxPad - i) : i \in 0..MaxPad }

MessageOpts ==
    { << >>, One(K_message, <<NumTok(5)>>), One(K_message, <<P("null")>>),
      One(K_message, ObjectText(One(K_toString, <<P("null")>>))) } \cup
    { One(K_message, <<StrTok(s)>>) : s \in MessageStrings }

ReminderOpts ==
    { << >>,
      One(K_reminder_title, <<StrTok(Hi)>>) \o One(K_reminder_time, <<StrTok(T_1700)>>)
          \o One(K_reminder_date, <<StrTok(D_iso)>>),
      One(K_reminder_time, <<StrTok(T_2599)>>) \o One(K_reminder_date, <<StrTok(D_iso)>>),
      One(K_reminder_time, <<StrTok(T_5pm)>>) \o One(K_reminder_date, <<StrTok(D_iso)>>),
      One(K_reminder_time, <<StrTok(T_1700)>>) \o One(K_reminder_date, <<StrTok(D_tomorrow)>>),
      One(K_reminder_title, <<StrTok(Hi)>>) \o One(K_clarification_for, <<StrTok(S_time)>>),
      One(K_clarification_for, <<StrTok(<< >>)>>) }

\* texts that are not one JSON value
MalformedTexts ==
    { << >>, <<P("<html>")>>, <<P("{")>>, <<P("null"), P("null")>>,
      <<P("{"), StrTok(K_intent), P(":"), StrTok(S_note), P(","), P("}")>>,
      <<P("["), NumTok(1), P(",")>> }

\* JSON values that are not objects
ScalarTexts ==
    { <<P("null")>>, <<NumTok(5)>>, <<StrTok(Hi)>>, <<P("true")>>,
      <<P("["), P("]")>> }

\* bodies of POST /brain-dump
ClassifyTexts ==
    { ObjectText(a \o b \o c \o d) :
        a \in StatusOpts, b \in IntentOpts, c \in MessageOpts, d \in ReminderOpts }
    \cup ScalarTexts \cup MalformedTexts

RegisteredOpts ==
    { << >>, One(K_registered, <<P("true")>>), One(K_registered, <<P("false")>>) }

RegistrationUrlOpts ==
    { << >>, One(K_registration_url, <<StrTok(S_url)>>),
      One(K_registration_url, <<StrTok(<< >>)>>),
      One(K_registration_url, <<P("null")>>),
      One(K_registration_url, <<NumTok(0)>>) }

\* bodies of GET /verify-user
VerifyTexts ==
    { ObjectText(a \o b) : a \in RegisteredOpts, b \in RegistrationUrlOpts }
    \cup ScalarTexts \cup MalformedTexts

(* ------------------------------------------------------------------ *)
(* State                                                                *)
(* ------------------------------------------------------------------ *)
VARIABLES
    script,     \* which script runs: "note" or "reminder"
    pc,         \* where the run is suspended
    site,       \* the call of getJson being awaited
    testNo,     \* reminder flow: the testReminder call in progress (0: none)
    requests,   \* every request handed to fetch, in order
    inflight,   \* indices of requests whose response is not fully read
    res,        \* getJson: the Response fetch resolved with
    text,       \* getJson: the body text read from the Response
    verify,     \* note flow: result of the verify-user getJson
    bd,         \* result of the brain-dump getJson
    log,        \* console.log lines that tell the outcomes apart
    err,        \* the Error caught at top level
    exitCode    \* process exit status, NotExited while running

vars == <<script, pc, site, testNo, requests, inflight, res, text, verify, bd, log,
          err, exitCode>>

NotExited == 0 - 1
None == [none |-> TRUE]
NoErr == [kind |-> "none"]

Line(m) == [m |-> m]

Init ==
    /\ script \in {"note", "reminder"}
    /\ pc = "start"
    /\ site = "none"
    /\ testNo = 0
    /\ requests = << >>
    /\ inflight = {}
    /\ res = None
    /\ text = None
    /\ verify = None
    /\ bd = None
    /\ log = << >>
    /\ err = NoErr
    /\ exitCode = NotExited

(* ------------------------------------------------------------------ *)
(* Shared control flow                                                  *)
(* ------------------------------------------------------------------ *)
\* variant: the .catch handler reports the error and lets the process end
\* normally
Catch_exitZero(e) ==
    /\ err' = e
    /\ exitCode' = 0
    /\ pc' = "exited"

\* a rejection reaches the .catch handler: console.error, process.exit(1)
Catch(e) ==
    /\ err' = e
    /\ exitCode' = 1
    /\ pc' = "exited"

\* the async main function returns: nothing is pending, the process ends
Finish ==
    /\ pc' = "exited"
    /\ exitCode' = 0
    /\ UNCHANGED err

\* getJson up to its first await: fetch(url, options) is called
CallGetJson(s, method, url, body) ==
    /\ requests' = Append(requests, [method |-> method, url |-> url, body |-> body])
    /\ inflight' = inflight \cup {Len(requests) + 1}
    /\ site' = s
    /\ pc' = "fetch"

\* variant: the error message leaves out the raw body
NonJsonError_noBody(url, status, raw) ==
    [kind |-> "Non-JSON response", url |-> url, status |-> status, body |-> << >>]

\* new Error(`Non-JSON response from ${url}\nStatus: ${res.status}\nBody:\n${text}`)
NonJsonError(url, status, raw) ==
    [kind |-> "Non-JSON response", url |-> url, status |-> status, body |-> raw]

FetchFailed == [kind |-> "fetch failed"]

TextsFor(s) == IF s = "verify" THEN VerifyTexts ELSE ClassifyTexts

\* await fetch(...) resolves with the response's status line and headers
FetchResolve ==
    /\ pc = "fetch"
    /\ \E st \in HTTPStatuses : res' = [status |-> st]
    /\ pc' = "text"
    /\ UNCHANGED <<script, site, testNo, requests, inflight, text, verify, bd,
                   log, err, exitCode>>

\* await fetch(...) rejects: transport failure
FetchReject ==
    /\ pc = "fetch"
    /\ inflight' = {}
    /\ Catch(FetchFailed)
    /\ UNCHANGED <<script, site, testNo, requests, res, text, verify, bd, log>>

\* await res.text() rejects: the connection breaks while the body is read
TextReject ==
    /\ pc = "text"
    /\ inflight' = {}
    /\ Catch(FetchFailed)
    /\ UNCHANGED <<script, site, testNo, requests, res, text, verify, bd, log>>

\* what getJson returns for a body that parses
JsonResult(status, json) == [status |-> status, ok |-> ResOk(status), json |-> json]

\* await res.text() resolves; JSON.parse; getJson throws or returns
TextResolve ==
    /\ pc = "text"
    /\ inflight' = {}
    /\ \E body \in TextsFor(site) :
         LET r == JSONparse(body)
             url == requests[Len(requests)].url IN
         /\ text' = [s |-> body]
         /\ IF ~r.ok
            THEN /\ Catch(NonJsonError(url, res.status, body))
                 /\ UNCHANGED <<verify, bd, res>>
            ELSE /\ IF site = "verify"
                    THEN /\ verify' = JsonResult(res.status, r.v)
                         /\ bd' = bd
                    ELSE /\ bd' = JsonResult(res.status, r.v)
                         /\ verify' = verify
                 /\ res' = None
                 /\ pc' = "returned"
                 /\ UNCHANGED <<err, exitCode>>
    /\ UNCHANGED <<script, site, testNo, requests, log>>

(* ------------------------------------------------------------------ *)
(* debug_note_flow.mjs                                                  *)
(* ------------------------------------------------------------------ *)
AssertError(msg) == [kind |-> "ASSERT FAILED: ", msg |-> msg]
TypeError(msg) == [kind |-> "TypeError", msg |-> msg]

\* assert(cond, msg): the Error thrown, NoErr when cond holds
assert(cond, msg) == IF ~cond THEN AssertError(msg) ELSE NoErr

\* variant: if (verify.ok && verify.json?.registration_url)
NeedsRegistration_andOk(v) ==
    v.ok /\ Truthy(OptGet(v.json, K_registration_url))

\* variant: if (verify.json?.registered === false || verify.json?.registration_url)
NeedsRegistration_orUnregistered(v) ==
    \/ OptGet(v.json, K_registered) = Bool(FALSE)
    \/ Truthy(OptGet(v.json, K_registration_url))

\* if (verify.json?.registration_url)
NeedsRegistration(v) == Truthy(OptGet(v.json, K_registration_url))

\* console.log("=== 1) VERIFY USER ==="); getJson(verifyUrl, { method: "GET" })
NoteStart ==
    /\ pc = "start"
    /\ script = "note"
    /\ log' = Append(log, Line("=== 1) VERIFY USER ==="))
    /\ CallGetJson("verify", "GET", verifyUrl, << >>)
    /\ UNCHANGED <<script, testNo, res, text, verify, bd, err, exitCode>>

\* after the verify-user result: stop with the registration link, or POST
NoteAfterVerify ==
    /\ pc = "returned"
    /\ site = "verify"
    /\ IF NeedsRegistration(verify)
       THEN /\ log' = log \o << Line("User needs registration. registration_url:"),
                                [m |-> "value", v |-> Get(verify.json, K_registration_url)],
                                Line("Stop here (this matches the shortcut behavior).") >>
            /\ Finish
            /\ UNCHANGED <<requests, inflight, site>>
       ELSE /\ log' = Append(log, Line("=== 2) BRAIN DUMP POST ==="))
            /\ CallGetJson("bd", "POST", postUrl, StringifyBody(NOTE_TEXT))
            /\ UNCHANGED <<err, exitCode>>
    /\ text' = None
    /\ UNCHANGED <<script, testNo, res, verify, bd>>

NoteOk == [kind |-> "ok"]
NoteHint == [kind |-> "hint"]

\* variant: the presence assertions are made for intent "note" only
NotePresence_onlyForNote(json) ==
    LET a1 == assert(IsObjectNotNull(json), "Response must be an object")
        a2 == assert(HasKey(K_status, json), "Missing 'status'")
        a3 == assert(HasKey(K_intent, json), "Missing 'intent'")
        a4 == assert(HasKey(K_message, json), "Missing 'message'") IN
    IF OptGet(json, K_intent) # Str(S_note) THEN NoErr
    ELSE IF a1 # NoErr THEN a1
    ELSE IF a2 # NoErr THEN a2
    ELSE IF a3 # NoErr THEN a3
    ELSE a4

\* the presence assertions: the first one that fails, NoErr if none does
NotePresence(json) ==
    LET a1 == assert(IsObjectNotNull(json), "Response must be an object")
        a2 == assert(HasKey(K_status, json), "Missing 'status'")
        a3 == assert(HasKey(K_intent, json), "Missing 'intent'")
        a4 == assert(HasKey(K_message, json), "Missing 'message'") IN
    IF a1 # NoErr THEN a1
    ELSE IF a2 # NoErr THEN a2
    ELSE IF a3 # NoErr THEN a3
    ELSE a4

\* console.log("message (value):\n" + bd.json.message)
NotePrintMessage(json) ==
    IF ConcatThrows(Get(json, K_message))
    THEN TypeError("Cannot convert object to primitive value")
    ELSE NoErr

\* variant: message.length > 0 without trim()
NoteBranch_noTrim(json) ==
    IF Get(json, K_intent) = Str(S_note)
    THEN LET b1 == assert(Get(json, K_status) = Str(S_SUCCESS),
                          "For note, status must be SUCCESS")
             b2 == assert(Get(json, K_message).t = "str",
                          "For note, message must be a string")
             b3 == assert(Len(Get(json, K_message).s) > 0,
                          "For note, message must not be empty") IN
         IF b1 # NoErr THEN b1
         ELSE IF b2 # NoErr THEN b2
         ELSE IF b3 # NoErr THEN b3
         ELSE NoteOk
    ELSE NoteHint

\* if (bd.json.intent === "note") { ... } else { ... }
NoteBranch(json) ==
    IF Get(json, K_intent) = Str(S_note)
    THEN LET b1 == assert(Get(json, K_status) = Str(S_SUCCESS),
                          "For note, status must be SUCCESS")
             b2 == assert(Get(json, K_message).t = "str",
                          "For note, message must be a string")
             b3 == assert(Len(Trim(Get(json, K_message).s)) > 0,
                          "For note, message must not be empty") IN
         IF b1 # NoErr THEN b1
         ELSE IF b2 # NoErr THEN b2
         ELSE IF b3 # NoErr THEN b3
         ELSE NoteOk
    ELSE NoteHint

\* step 3 as a whole: the Error thrown, or NoteOk / NoteHint
NoteContract(json) ==
    IF NotePresence(json) # NoErr THEN NotePresence(json)
    ELSE IF NotePrintMessage(json) # NoErr THEN NotePrintMessage(json)
    ELSE NoteBranch(json)

\* "=== 3) VALIDATE NOTE CONTRACT ===" to the end of the main function
NoteValidate ==
    /\ pc = "returned"
    /\ site = "bd"
    /\ script = "note"
    /\ LET out == NoteContract(bd.json) IN
       CASE out = NoteOk ->
              /\ log' = log \o << Line("=== 3) VALIDATE NOTE CONTRACT ==="),
                                  Line("NOTE CONTRACT OK.") >>
              /\ Finish
         [] out = NoteHint ->
              /\ log' = log \o << Line("=== 3) VALIDATE NOTE CONTRACT ==="),
                                  Line("intent is not 'note' for this input.") >>
              /\ Finish
         [] OTHER ->
              /\ log' = Append(log, Line("=== 3) VALIDATE NOTE CONTRACT ==="))
              /\ Catch(out)
    /\ text' = None
    /\ UNCHANGED <<script, site, testNo, requests, inflight, res, verify, bd>>

(* ------------------------------------------------------------------ *)
(* debug_reminder_flow.mjs                                              *)
(* ------------------------------------------------------------------ *)
TestLine(n) == [m |-> "TEST:", n |-> n]

\* testReminder(text, description) up to the await of getJson
testReminder(n, input) ==
    /\ testNo' = n
    /\ log' = Append(log, TestLine(n))
    /\ CallGetJson("bd", "POST", postUrl, StringifyBody(input))

\* variant: both testReminder calls are started without awaiting the first
ReminderStart_noAwait ==
    /\ pc = "start"
    /\ script = "reminder"
    /\ testNo' = 2
    /\ log' = log \o << TestLine(1), TestLine(2) >>
    /\ requests' = requests \o
         << [method |-> "POST", url |-> postUrl, body |-> StringifyBody(TEST_WITHOUT_TIME)],
            [method |-> "POST", url |-> postUrl, body |-> StringifyBody(TEST_WITH_TIME)] >>
    /\ inflight' = {1, 2}
    /\ site' = "bd"
    /\ pc' = "fetch"
    /\ UNCHANGED <<script, res, text, verify, bd, err, exitCode>>

\* main: the banner, then await testReminder(TEST_WITHOUT_TIME, ...)
ReminderStart ==
    /\ pc = "start"
    /\ script = "reminder"
    /\ testReminder(1, TEST_WITHOUT_TIME)
    /\ UNCHANGED <<script, res, text, verify, bd, err, exitCode>>

\* the lines testReminder prints under "--- CONTRACT VALIDATION ---"
ReminderReport(json) ==
    IF Get(json, K_intent) # Str(S_reminder)
    THEN << Line("Intent is not 'reminder':") >>
    ELSE << Line("intent:") >> \o
         ( IF Get(json, K_status) = Str(S_NEEDS_CLARIFICATION)
           THEN << Line("Shortcut should ASK USER for time") >>
           ELSE IF Get(json, K_status) = Str(S_SUCCESS)
           THEN << Line("Shortcut should CREATE REMINDER with:") >>
           ELSE << >> )

\* testReminder after getJson returned: report, validation, return
ReminderValidate ==
    /\ pc = "returned"
    /\ script = "reminder"
    /\ IF bd.json.t = "null"
       THEN /\ Catch(TypeError("Cannot read properties of null (reading 'intent')"))
            /\ UNCHANGED log
       ELSE /\ log' = log \o ReminderReport(bd.json)
            /\ pc' = "tested"
            /\ UNCHANGED <<err, exitCode>>
    /\ text' = None
    /\ UNCHANGED <<script, site, testNo, requests, inflight, res, verify, bd>>

\* main after a testReminder call returned: the second test, or the end
ReminderNext ==
    /\ pc = "tested"
    /\ bd' = None
    /\ IF testNo = 1
       THEN /\ testReminder(2, TEST_WITH_TIME)
            /\ UNCHANGED <<err, exitCode>>
       ELSE /\ Finish
            /\ UNCHANGED <<site, testNo, requests, inflight, log>>
    /\ UNCHANGED <<script, res, text, verify>>

Next ==
    \/ FetchResolve
    \/ FetchReject
    \/ TextReject
    \/ TextResolve
    \/ NoteStart
    \/ NoteAfterVerify
    \/ NoteValidate
    \/ ReminderStart
    \/ ReminderValidate
    \/ ReminderNext

Spec == Init /\ [][Next]_vars


(* ------------------------------------------------------------------ *)
(* Vocabulary of the properties                                         *)
(* ------------------------------------------------------------------ *)
Digits == {"0","1","2","3","4","5","6","7","8","9"}

\* ^\d{2}:\d{2}$
MatchesHHMM(v) ==
    /\ v.t = "str"
    /\ Len(v.s) = 5
    /\ \A i \in {1, 2, 4, 5} : v.s[i] \in Digits
    /\ v.s[3] = ":"

\* ^\d{4}-\d{2}-\d{2}$
MatchesYYYYMMDD(v) ==
    /\ v.t = "str"
    /\ Len(v.s) = 10
    /\ \A i \in {1, 2, 3, 4, 6, 7, 9, 10} : v.s[i] \in Digits
    /\ v.s[5] = "-"
    /\ v.s[8] = "-"

\* a string with at least one character that is not white space
NonBlankString(v) ==
    /\ v.t = "str"
    /\ \E i \in 1..Len(v.s) : v.s[i] \notin {" ", "\t", "\n", "\r"}

NonEmptyString(v) == v.t = "str" /\ Len(v.s) >= 1

\* the member of a parsed body, Undefined when the body has no such member
Field(json, key) ==
    IF json.t = "obj" /\ key \in DOMAIN json.f THEN json.f[key] ELSE Undefined

Lacks(json, key) == json.t # "obj" \/ key \notin DOMAIN json.f

InLog(m) == \E i \in 1..Len(log) : log[i] = [m |-> m]

\* the note flow has run its contract validation on the POST's answer
NoteValidated == script = "note" /\ bd # None /\ pc = "exited"

\* the note flow has acted on the verify-user answer
NoteVerifyHandled ==
    script = "note" /\ verify # None /\ ~(pc = "returned" /\ site = "verify")

\* a testReminder call has returned normally and main has not gone on yet
ReminderPassed == script = "reminder" /\ pc = "tested"

(* ------------------------------------------------------------------ *)
(* C1  Note flow, answers with intent "note": the run exits 0 with the   *)
(*     contract reported OK exactly when status is "SUCCESS" and message *)
(*     is a string that is not blank; every other answer with intent     *)
(*     "note" stops the run in the validation step with exit status 1.   *)
(* ------------------------------------------------------------------ *)
C1_NoteContractGood(json) ==
    /\ Field(json, K_status) = Str(S_SUCCESS)
    /\ NonBlankString(Field(json, K_message))

C2_Missing(json) ==
    { m \in { <<K_status, "Missing 'status'">>, <<K_intent, "Missing 'intent'">>,
              <<K_message, "Missing 'message'">> } : Lacks(json, m[1]) }

C2_PresenceFirst ==
    (NoteValidated /\ C2_Missing(bd.json) # {}) =>
        /\ exitCode = 1
        /\ err.kind = "ASSERT FAILED: "
        /\ IF bd.json.t \in {"obj", "arr"}
           THEN \E m \in C2_Missing(bd.json) : err.msg = m[2]
           ELSE err.msg = "Response must be an object"
        /\ ~InLog("intent is not 'note' for this input.")
        /\ ~InLog("NOTE CONTRACT OK.")

C2_Witness ==
    /\ NoteValidated
    /\ Field(bd.json, K_intent) = Str(<<"o","t","h","e","r">>)
    /\ Field(bd.json, K_status) = Str(S_SUCCESS)
    /\ Lacks(bd.json, K_message)
    /\ exitCode = 1
    /\ err = AssertError("Missing 'message'")

(* ------------------------------------------------------------------ *)
(* C3  Reminder flow, as claimed: when testReminder returns normally on  *)
(*     an answer with intent "reminder" and status "SUCCESS", its        *)
(*     reminder_time has the shape HH:MM and its reminder_date the       *)
(*     shape YYYY-MM-DD.                                                 *)
(* ------------------------------------------------------------------ *)
C3_SuccessWellFormed ==
    ( /\ ReminderPassed
      /\ Field(bd.json, K_intent) = Str(S_reminder)
      /\ Field(bd.json, K_status) = Str(S_SUCCESS) ) =>
        /\ MatchesHHMM(Field(bd.json, K_reminder_time))
        /\ MatchesYYYYMMDD(Field(bd.json, K_reminder_date))

(* ------------------------------------------------------------------ *)
(* C4  Reminder flow, as claimed: when testReminder returns normally on  *)
(*     an answer with intent "reminder" and status                       *)
(*     "NEEDS_CLARIFICATION", clarification_for is present and not       *)
(*     empty.                                                            *)
(* ------------------------------------------------------------------ *)
C4_ClarificationPresent ==
    ( /\ ReminderPassed
      /\ Field(bd.json, K_intent) = Str(S_reminder)
      /\ Field(bd.json, K_status) = Str(S_NEEDS_CLARIFICATION) ) =>
        NonEmptyString(Field(bd.json, K_clarification_for))

(* ------------------------------------------------------------------ *)
(* C5  Note flow: once the verify-user answer carrying a registration    *)
(*     link has been handled, the run is over with exit status 0 and no  *)
(*     error, the link was printed, the GET is the only request ever     *)
(*     issued and no contract validation was run.                        *)
(* ------------------------------------------------------------------ *)
C5_CarriesUrl(json) == NonEmptyString(Field(json, K_registration_url))

C5_ShortCircuit ==
    (NoteVerifyHandled /\ C5_CarriesUrl(verify.json)) =>
        /\ pc = "exited"
        /\ exitCode = 0
        /\ err = NoErr
        /\ Len(requests) = 1
        /\ requests[1].method = "GET"
        /\ inflight = {}
        /\ bd = None
        /\ \E i \in 1..Len(log) :
             log[i] = [m |-> "value", v |-> Field(verify.json, K_registration_url)]
        /\ ~InLog("=== 3) VALIDATE NOTE CONTRACT ===")

C5_Witness ==
    /\ NoteVerifyHandled
    /\ Field(verify.json, K_registered) = Bool(FALSE)
    /\ C5_CarriesUrl(verify.json)
    /\ pc = "exited"
    /\ exitCode = 0
    /\ Len(requests) = 1

(* ------------------------------------------------------------------ *)
(* C6  Either script, either endpoint, any HTTP status: when the body    *)
(*     read is not JSON the run is over with exit status 1 and the       *)
(*     error caught is the Non-JSON error carrying the URL, the HTTP     *)
(*     status of the response and the raw body text.                     *)
(* ------------------------------------------------------------------ *)
C6_NonJsonIsFatal ==
    (text # None /\ text.s \in MalformedTexts) =>
        /\ pc = "exited"
        /\ exitCode = 1
        /\ err.kind = "Non-JSON response"
        /\ err.status = res.status
        /\ err.body = text.s
        /\ err.url = requests[Len(requests)].url
        /\ inflight = {}

C6_Witness ==
    /\ script = "note"
    /\ Len(requests) = 2
    /\ res = [status |-> 200]
    /\ text = [s |-> <<P("{"), StrTok(K_intent), P(":"), StrTok(S_note), P(","), P("}")>>]
    /\ exitCode = 1
    /\ err.kind = "Non-JSON response"
    /\ err.status = 200

(* ------------------------------------------------------------------ *)
(* C7  As claimed: a well-formed answer whose intent is not the one      *)
(*     under test never aborts the run.  Note flow: the run ends with    *)
(*     exit status 0 and the hint.  Reminder flow: after a mismatch in   *)
(*     the first test the second POST is issued, and the run exits 0     *)
(*     unless the second test raises a fatal error.                      *)
(* ------------------------------------------------------------------ *)
C7_FirstTestMismatch ==
    /\ script = "reminder"
    /\ Len(log) >= 2
    /\ log[2] = [m |-> "Intent is not 'reminder':"]

C7_NoteMismatchExitsZero ==
    ( /\ NoteValidated
      /\ C2_Missing(bd.json) = {}
      /\ Field(bd.json, K_intent) # Str(S_note) ) =>
        /\ exitCode = 0
        /\ err = NoErr
        /\ InLog("intent is not 'note' for this input.")

C7_ReminderMismatchGoesOn ==
    /\ (C7_FirstTestMismatch /\ ~(pc = "tested" /\ testNo = 1)) =>
           /\ Len(requests) = 2
           /\ requests[2].body = StringifyBody(TEST_WITH_TIME)
    /\ (C7_FirstTestMismatch /\ pc = "exited" /\ err = NoErr) => exitCode = 0

C7_MismatchNeverAborts ==
    /\ C7_NoteMismatchExitsZero
    /\ C7_ReminderMismatchGoesOn

(* ------------------------------------------------------------------ *)
(* C8  A fatal error is a hard stop: once an error is caught the run is  *)
(*     over with exit status 1 and nothing in flight, no request is      *)
(*     issued afterwards, and exit status 0 is reached only without an   *)
(*     error.                                                            *)
(* ------------------------------------------------------------------ *)
C8_Stopped ==
    /\ err # NoErr => (pc = "exited" /\ exitCode = 1 /\ inflight = {})
    /\ exitCode = 0 => (pc = "exited" /\ err = NoErr)
    /\ pc = "exited" => exitCode \in {0, 1}

C8_FatalIsHardStop ==
    /\ []C8_Stopped
    /\ [][(err # NoErr \/ pc = "exited") =>
             (requests' = requests /\ inflight' = inflight /\ exitCode' = exitCode)]_vars

C8_Witness ==
    /\ script = "note"
    /\ err = FetchFailed
    /\ exitCode = 1
    /\ Len(requests) = 1
    /\ verify = None

(* ------------------------------------------------------------------ *)
(* C9  Requests are sequential and in a fixed order: never more than     *)
(*     one in flight, never more than two in a run; the note flow        *)
(*     issues the GET first and the POST only with the verify-user       *)
(*     result in hand; the reminder flow issues the text without time    *)
(*     first and the text with time only when the first testReminder     *)
(*     has returned.                                                     *)
(* ------------------------------------------------------------------ *)
C9_Post(input) == [method |-> "POST", url |-> postUrl, body |-> StringifyBody(input)]

C9_Order ==
    /\ Cardinality(inflight) <= 1
    /\ inflight \subseteq {Len(requests)}
    /\ Len(requests) <= 2
    /\ script = "note" =>
         /\ Len(requests) >= 1 => requests[1] = [method |-> "GET", url |-> verifyUrl, body |-> << >>]
         /\ Len(requests) = 2 => (requests[2] = C9_Post(NOTE_TEXT) /\ verify # None)
    /\ script = "reminder" =>
         /\ Len(requests) >= 1 => requests[1] = C9_Post(TEST_WITHOUT_TIME)
         /\ Len(requests) = 2 => requests[2] = C9_Post(TEST_WITH_TIME)

C9_IssueStep ==
    Len(requests') # Len(requests) =>
        /\ Len(requests') = Len(requests) + 1
        /\ inflight = {}
        /\ Len(requests) = 1 =>
             IF script = "note"
             THEN pc = "returned" /\ verify # None /\ text # None
             ELSE pc = "tested" /\ testNo = 1 /\ bd # None

C9_Sequential ==
    /\ []C9_Order
    /\ [][C9_IssueStep]_vars

C9_Witness ==
    /\ script = "reminder"
    /\ Len(requests) = 2
    /\ inflight = {2}
    /\ testNo = 2

(* ------------------------------------------------------------------ *)
(* C10 Note flow: once the verify-user answer has been handled, the      *)
(*     POST has been issued exactly when the parsed body has no truthy   *)
(*     registration_url, whatever the registered member and the HTTP     *)
(*     status are; with a truthy one the run stopped after the GET.      *)
(* ------------------------------------------------------------------ *)
C10_Falsy(json) ==
    LET u == Field(json, K_registration_url) IN
    \/ u.t \in {"undefined", "null"}
    \/ u = Str(<< >>)
    \/ u = Num(0)
    \/ u = Bool(FALSE)

C10_OnlyRegistrationUrl ==
    NoteVerifyHandled =>
        IF C10_Falsy(verify.json)
        THEN /\ Len(requests) = 2
             /\ requests[2].method = "POST"
             /\ requests[2].url = postUrl
        ELSE /\ Len(requests) = 1
             /\ pc = "exited"
             /\ exitCode = 0

C10_Witness ==
    /\ NoteVerifyHandled
    /\ verify.status = 500
    /\ Field(verify.json, K_registered) = Bool(FALSE)
    /\ Lacks(verify.json, K_registration_url)
    /\ Len(requests) = 2
    /\ requests[2].method = "POST"

====
